---- MODULE Spec2Model ----
(***************************************************************************)
(* Evil Hangman (hangman.py): the candidate-list update rule update_words  *)
(* and the turn loop of play().                                            *)
(*                                                                         *)
(* A word is a sequence of one-character strings; a word list is a         *)
(* sequence of words (Python lists keep order and duplicates).  Positions  *)
(* inside a word are zero-based, as enumerate() yields them.               *)
(***************************************************************************)
EXTENDS Integers, Sequences, FiniteSets, TLC

(* ------------------------------ bounds -------------------------------- *)

\* most lines in the word file
MaxWords == 3
\* largest answer to "how many guesses do you want"
MaxGuesses == 2

(* ---------------------------- characters ------------------------------ *)

\* str.lower() on one character: an upper-case letter maps to its lower-case
\* letter, every other character is left alone
LowerOf == [A |-> "a", E |-> "e", O |-> "o"]

lower_char(c) == IF c \in DOMAIN LowerOf THEN LowerOf[c] ELSE c

lower(s) == [i \in 1..Len(s) |-> lower_char(s[i])]

\* the lower-case letters of the model
Lowercase == {"a", "c", "d", "e", "f", "g", "m", "o", "r", "t"}

\* str.isalpha(): non-empty and every character is a letter
isalpha(s) == Len(s) > 0 /\ \A i \in 1..Len(s) : s[i] \in Lowercase \cup DOMAIN LowerOf

\* set(word)
set(word) == {word[i] : i \in 1..Len(word)}

(* ------------------------------ get_words ----------------------------- *)

\* the stripped lines a word file may hold: an empty line, words of one and
\* two letters, some with a capital, and lines that are not alphabetic
RawWords ==
    { <<>>, <<"a">>, <<"O">>, <<"1">>,
      <<"a", "a">>, <<"a", "o">>, <<"O", "a">>, <<"o", "o">>, <<"a", "e">>,
      <<"E", "o">>, <<"a", "1">> }

\* the word files
RawFiles == UNION {[1..n -> RawWords] : n \in 0..MaxWords}

\* the answers to the "what length word do you want" prompt
WordLens == {0, 1, 2, 3}

\* the comprehension of line 56: keeps order, lower-cases the words kept
RECURSIVE get_words(_, _)
get_words(raw, word_len) ==
    IF raw = <<>> THEN <<>>
    ELSE LET w == Head(raw)
             rest == get_words(Tail(raw), word_len)
         IN  IF isalpha(w) /\ Len(w) = word_len THEN <<lower(w)>> \o rest ELSE rest

\* the lists get_words can hand to play()
WordLists == {get_words(raw, n) : raw \in RawFiles, n \in WordLens}

(* ----------------------------- update_words --------------------------- *)

\* idxs of line 86, as the set of the tuple's members
idxs(word, ltr) == {i \in 0..(Len(word) - 1) : word[i + 1] = ltr}

\* a faulty grouping: a word is appended to every family but its own
RECURSIVE family_words_other(_, _, _)
family_words_other(legal_words, ltr, key) ==
    IF legal_words = <<>> THEN <<>>
    ELSE LET w == Head(legal_words)
             rest == family_words_other(Tail(legal_words), ltr, key)
         IN  IF idxs(w, ltr) # key THEN <<w>> \o rest ELSE rest

\* a faulty grouping: every word is appended to every family
family_words_all(legal_words, ltr, key) == legal_words

\* families[key]: the words with that key, in input order
RECURSIVE family_words(_, _, _)
family_words(legal_words, ltr, key) ==
    IF legal_words = <<>> THEN <<>>
    ELSE LET w == Head(legal_words)
             rest == family_words(Tail(legal_words), ltr, key)
         IN  IF idxs(w, ltr) = key THEN <<w>> \o rest ELSE rest

\* the families dict as the list of its items, in order of first insertion
RECURSIVE families_from(_, _, _, _)
families_from(all_words, todo, ltr, seen) ==
    IF todo = <<>> THEN <<>>
    ELSE LET key == idxs(Head(todo), ltr)
         IN  IF key \in seen
             THEN families_from(all_words, Tail(todo), ltr, seen)
             ELSE <<[f_idxs |-> key, f_words |-> family_words(all_words, ltr, key)]>>
                  \o families_from(all_words, Tail(todo), ltr, seen \cup {key})

families(legal_words, ltr) == families_from(legal_words, legal_words, ltr, {})

\* a faulty size: min() where max() is meant
longest_fam_len_min(legal_words, ltr) ==
    LET fams == families(legal_words, ltr)
    IN  CHOOSE n \in {Len(fams[k].f_words) : k \in 1..Len(fams)} :
            \A k \in 1..Len(fams) : Len(fams[k].f_words) >= n

\* max() of the family sizes; defined only for a non-empty list
longest_fam_len(legal_words, ltr) ==
    LET fams == families(legal_words, ltr)
    IN  CHOOSE n \in {Len(fams[k].f_words) : k \in 1..Len(fams)} :
            \A k \in 1..Len(fams) : Len(fams[k].f_words) <= n

RECURSIVE filter_len(_, _)
filter_len(fams, n) ==
    IF fams = <<>> THEN <<>>
    ELSE IF Len(Head(fams).f_words) = n
         THEN <<Head(fams)>> \o filter_len(Tail(fams), n)
         ELSE filter_len(Tail(fams), n)

longest_fams(legal_words, ltr) ==
    filter_len(families(legal_words, ltr), longest_fam_len(legal_words, ltr))

RECURSIVE filter_count(_, _)
filter_count(fams, n) ==
    IF fams = <<>> THEN <<>>
    ELSE IF Cardinality(Head(fams).f_idxs) = n
         THEN <<Head(fams)>> \o filter_count(Tail(fams), n)
         ELSE filter_count(Tail(fams), n)

\* sorted(fams, key=lambda f: len(f[0])): stable, ascending in the number of
\* positions; a key has between 0 and maxcount positions
RECURSIVE sorted_from(_, _, _)
sorted_from(fams, n, maxcount) ==
    IF n > maxcount THEN <<>>
    ELSE filter_count(fams, n) \o sorted_from(fams, n + 1, maxcount)

sorted_by_count(fams, maxcount) == sorted_from(fams, 0, maxcount)

fams_with_fewest_match(legal_words, ltr) ==
    sorted_by_count(longest_fams(legal_words, ltr), Len(Head(legal_words)))

\* random.choice(seq): any element of the sequence
random_choice(seq) == {seq[k] : k \in 1..Len(seq)}

\* the families update_words may choose; its return value is f_words
update_words(legal_words, ltr) == random_choice(fams_with_fewest_match(legal_words, ltr))

(* -------------------------------- play -------------------------------- *)

VARIABLES
    words,            \* the candidate list
    nguesses,         \* the answer to "how many guesses do you want"
    nguesses_left,
    guessed_letters,
    ltr,              \* the lower-cased line last read at the guess prompt
    legal_words,      \* argument of the last update_words call
    pattern,          \* guessed letter -> f_idxs of the family chosen for it
    word,             \* words[0] after the last accepted guess
    pc,               \* "AwaitingGuess", "Won", "Lost" or "Raised"
    word_was          \* the word printed by line 174

vars == <<words, nguesses, nguesses_left, guessed_letters, ltr, legal_words,
          pattern, word, pc, word_was>>

\* value of a local that is not bound yet
Unbound == <<>>

\* characters the player can type
InputChars == {"a", "e", "o", "O", "1"}

\* the lines the player can type: empty, one character, or longer
InputLines == {<<>>} \cup {<<c>> : c \in InputChars} \cup {<<"a", "o">>, <<"1", "1">>}

\* the answers to the "how many guesses do you want" prompt
GuessCounts == {-1} \cup 0..MaxGuesses

Init ==
    /\ words \in WordLists
    /\ nguesses \in GuessCounts
    /\ nguesses_left = nguesses
    /\ guessed_letters = {}
    /\ ltr = Unbound
    /\ legal_words = Unbound
    /\ pattern = <<>>
    /\ word = Unbound
    /\ pc = "AwaitingGuess"
    /\ word_was = Unbound

\* a faulty test: the sense of the membership test is inverted
letter_in_word_inverted(c, w) == c \notin set(w)

\* line 158
letter_in_word(c, w) == c \in set(w)

\* a faulty test: the set difference taken the wrong way round
no_missing_letters_reversed(w, guessed) == guessed \ set(w) = {}

\* line 160: are there no missing letters?
no_missing_letters(w, guessed) == set(w) \ guessed = {}

\* a faulty test: the loss is noticed one miss late
out_of_guesses_late(n) == n < 0

\* line 167
out_of_guesses(n) == n = 0

\* lines 138-140
RejectLength ==
    /\ pc = "AwaitingGuess"
    /\ \E line \in InputLines :
        /\ ltr' = lower(line)
        /\ Len(ltr') # 1
    /\ UNCHANGED <<words, nguesses, nguesses_left, guessed_letters, legal_words,
                   pattern, word, pc, word_was>>

\* a faulty rejection: the repeated guess costs a turn
RejectRepeat_costs_turn ==
    /\ pc = "AwaitingGuess"
    /\ \E line \in InputLines :
        /\ ltr' = lower(line)
        /\ Len(ltr') = 1
        /\ ltr'[1] \in guessed_letters
    /\ nguesses_left' = nguesses_left - 1
    /\ UNCHANGED <<words, nguesses, guessed_letters, legal_words,
                   pattern, word, pc, word_was>>

\* lines 142-144
RejectRepeat ==
    /\ pc = "AwaitingGuess"
    /\ \E line \in InputLines :
        /\ ltr' = lower(line)
        /\ Len(ltr') = 1
        /\ ltr'[1] \in guessed_letters
    /\ UNCHANGED <<words, nguesses, nguesses_left, guessed_letters, legal_words,
                   pattern, word, pc, word_was>>

\* lines 146-148 on an empty candidate list: max() of line 92 raises
\* ValueError, which nothing catches
GuessRaises ==
    /\ pc = "AwaitingGuess"
    /\ words = <<>>
    /\ \E line \in InputLines :
        /\ ltr' = lower(line)
        /\ Len(ltr') = 1
        /\ ltr'[1] \notin guessed_letters
        /\ guessed_letters' = guessed_letters \cup {ltr'[1]}
    /\ legal_words' = words
    /\ pc' = "Raised"
    /\ UNCHANGED <<words, nguesses, nguesses_left, pattern, word, word_was>>

\* lines 146-172: an accepted guess
Guess ==
    /\ pc = "AwaitingGuess"
    /\ words # <<>>
    /\ \E line \in InputLines :
        /\ ltr' = lower(line)
        /\ Len(ltr') = 1
        /\ ltr'[1] \notin guessed_letters
        /\ guessed_letters' = guessed_letters \cup {ltr'[1]}
        /\ legal_words' = words
        /\ \E fam \in update_words(words, ltr'[1]) :
            /\ words' = fam.f_words
            /\ pattern' = [g \in guessed_letters' |->
                             IF g = ltr'[1] THEN fam.f_idxs ELSE pattern[g]]
        /\ IF words' = <<>>
           THEN \* words[0] of line 156 raises IndexError
                /\ word' = word
                /\ nguesses_left' = nguesses_left
                /\ pc' = "Raised"
           ELSE /\ word' = words'[1]
                /\ IF letter_in_word(ltr'[1], word')
                   THEN /\ nguesses_left' = nguesses_left
                        /\ pc' = IF no_missing_letters(word', guessed_letters')
                                 THEN "Won" ELSE "AwaitingGuess"
                   ELSE /\ nguesses_left' = nguesses_left - 1
                        /\ pc' = IF out_of_guesses(nguesses_left')
                                 THEN "Lost" ELSE "AwaitingGuess"
    /\ UNCHANGED <<nguesses, word_was>>

\* line 174, after the loop
PrintWordWas ==
    /\ pc \in {"Won", "Lost"}
    /\ word_was = Unbound
    /\ word_was' = word
    /\ UNCHANGED <<words, nguesses, nguesses_left, guessed_letters, ltr,
                   legal_words, pattern, word, pc>>

Next ==
    \/ RejectLength
    \/ RejectRepeat
    \/ GuessRaises
    \/ Guess
    \/ PrintWordWas

Spec == Init /\ [][Next]_vars

(* ----------------------- update_words on its own --------------------- *)

\* the example of the comment at lines 80-81, lower-cased
ScenarioA == << <<"f", "o", "o">>, <<"o", "f", "f">>, <<"m", "o", "o">>,
               <<"o", "r", "e">>, <<"c", "a", "t">>, <<"d", "o", "g">> >>

\* the non-empty candidate lists update_words is applied to
UpdateWordsInputs == (WordLists \ {<<>>}) \cup {ScenarioA}

\* the letters update_words is applied to
UpdateWordsLetters == Lowercase \cup {"1"}

InitUpdateWords ==
    /\ words \in UpdateWordsInputs
    /\ nguesses = 0
    /\ nguesses_left = 0
    /\ guessed_letters = {}
    /\ ltr = Unbound
    /\ legal_words = Unbound
    /\ pattern = <<>>
    /\ word = Unbound
    /\ pc = "update_words"
    /\ word_was = Unbound

\* one call words = update_words(words, c)
CallUpdateWords ==
    /\ pc = "update_words"
    /\ \E c \in UpdateWordsLetters :
        /\ ltr' = <<c>>
        /\ legal_words' = words
        /\ \E fam \in update_words(words, c) :
            /\ words' = fam.f_words
            /\ pattern' = [g \in {c} |-> fam.f_idxs]
    /\ UNCHANGED <<nguesses, nguesses_left, guessed_letters, word, pc, word_was>>

SpecUpdateWords == InitUpdateWords /\ [][CallUpdateWords]_vars

(* ------------------------------ properties ---------------------------- *)

\* the occurrence patterns of letter c over the words of ws
Patterns(ws, c) == {idxs(ws[k], c) : k \in 1..Len(ws)}

\* the cell of pattern K: the words of ws that have c at exactly the positions K
Cell(ws, c, K) == SelectSeq(ws, LAMBDA w : idxs(w, c) = K)

\* K is the pattern of a cell of largest cardinality
IsLargest(ws, c, K) == \A K2 \in Patterns(ws, c) : Len(Cell(ws, c, K2)) <= Len(Cell(ws, c, K))

\* C1: starting from a non-empty list of same-length words, a turn of play()
\* (accepted or rejected) leaves the candidate list non-empty, and words[0]
\* does not fail.
C1_CandidatesStayNonEmpty ==
    [][words # <<>> => (words' # <<>> /\ pc' # "Raised")]_vars

\* an accepted guess has narrowed a candidate list to a smaller, non-empty one
C1_Narrowed ==
    /\ word # Unbound
    /\ words # <<>>
    /\ Len(words) < Len(legal_words)

\* C2: for every guessed letter g, all candidate words have g at exactly the
\* positions of the family chosen when g was guessed (none for a miss).
C2_ConsistentWithGuesses ==
    \A g \in guessed_letters : \A k \in 1..Len(words) :
        /\ g \in DOMAIN pattern
        /\ idxs(words[k], g) = pattern[g]

\* different candidates are left after a hit and, later or earlier, a miss
C2_HitAndMissKept ==
    /\ \E i, j \in 1..Len(words) : words[i] # words[j]
    /\ DOMAIN pattern = guessed_letters
    /\ \E g, h \in guessed_letters : pattern[g] = {} /\ pattern[h] # {}

\* C3: the family update_words returns has the fewest occurrence positions
\* among the families of largest cardinality; for FOO OFF MOO ORE CAT DOG and
\* the letter O the result is OFF ORE.
C3_FewestAmongLargest ==
    legal_words # Unbound =>
        /\ \A K \in Patterns(legal_words, ltr[1]) :
               IsLargest(legal_words, ltr[1], K)
                   => Cardinality(pattern[ltr[1]]) <= Cardinality(K)
        /\ (legal_words = ScenarioA /\ ltr = <<"o">>)
               => words = << <<"o", "f", "f">>, <<"o", "r", "e">> >>

\* C4: the list update_words returns is one whole cell of the partition of
\* its input by occurrence pattern, and no cell has more words.
C4_WholeLargestCell ==
    legal_words # Unbound =>
        \E K \in Patterns(legal_words, ltr[1]) :
            /\ words = Cell(legal_words, ltr[1], K)
            /\ pattern[ltr[1]] = K
            /\ IsLargest(legal_words, ltr[1], K)

\* a cell of two words was kept and a cell of one word dropped
C4_LargerCellKept ==
    /\ Len(legal_words) = 3
    /\ Len(words) = 2
    /\ pattern[ltr[1]] # {}

\* the letters the player can guess
Alphabet == {lower_char(c) : c \in InputChars} \cap Lowercase

\* C5: a guess that is not exactly one alphabetic character is rejected: the
\* guessed letters, the candidate list and the remaining-guess counter are
\* unchanged.
C5_NonLetterRejected ==
    [][(pc = "AwaitingGuess" /\ ~(Len(ltr') = 1 /\ isalpha(ltr')))
          => UNCHANGED <<guessed_letters, words, nguesses_left>>]_vars

\* C6: guessing a letter that is already guessed is rejected: the guessed
\* letters, the candidate list and the counter are unchanged, update_words is
\* not called and the game keeps awaiting a guess.
C6_RepeatRejected ==
    [][(pc = "AwaitingGuess" /\ Len(ltr') = 1 /\ ltr'[1] \in guessed_letters)
          => (/\ UNCHANGED <<guessed_letters, words, nguesses_left>>
              /\ UNCHANGED <<legal_words, pattern, word>>
              /\ pc' = "AwaitingGuess")]_vars

\* the line last read is a guessed letter that was not the last one accepted:
\* the last accepted guess split legal_words, and this letter does not
C6_RepeatWasRead ==
    /\ pc = "AwaitingGuess"
    /\ Len(ltr) = 1
    /\ ltr[1] \in guessed_letters
    /\ Len(words) < Len(legal_words)
    /\ \A k \in 1..Len(legal_words) : idxs(legal_words[k], ltr[1]) = pattern[ltr[1]]

\* C7: with a starting guess count of 0 or less the session is refused: no
\* guess is accepted, and the counter is never below zero while the game is
\* awaiting a guess.
C7_NonPositiveCountRefused ==
    nguesses <= 0 =>
        /\ guessed_letters = {}
        /\ ~(nguesses_left < 0 /\ pc = "AwaitingGuess")

\* C8: with an empty word list the failure comes before the first turn: no
\* guess is prompted for or accepted and the guessed letters are not modified.
C8_NoWordsFailsFast ==
    words = <<>> => (ltr = Unbound /\ guessed_letters = {})

\* C9: from a non-empty word list and a guess count of at least 1, the game
\* is over once every letter of the alphabet is guessed, so no later than the
\* accepted guess that completes the alphabet when only letters are guessed.
C9_AllLettersGuessedEnds ==
    (nguesses >= 1 /\ pc # "Raised") =>
        /\ Alphabet \subseteq guessed_letters => pc \in {"Won", "Lost"}
        /\ (pc = "AwaitingGuess" /\ guessed_letters \subseteq Alphabet)
               => Cardinality(guessed_letters) < Cardinality(Alphabet)

\* the game ended on the guess that completed the alphabet
C9_EndedOnLastLetter ==
    /\ nguesses >= 1
    /\ guessed_letters = Alphabet
    /\ pc = "Won"

\* C10: once Won or Lost, the candidate list, the guessed letters and the
\* counter never change and no guess is accepted; with a starting count of 1
\* the first miss leaves the counter at 0 and the game Lost.
C10_TerminalAbsorbing ==
    /\ [][(pc \in {"Won", "Lost"})
            => (UNCHANGED <<words, guessed_letters, nguesses_left, ltr, pc>>)]_vars
    /\ []((nguesses = 1 /\ \E g \in DOMAIN pattern : pattern[g] = {})
            => (nguesses_left = 0 /\ pc = "Lost"))

\* a game of one guess was lost on its first miss and line 174 has run
C10_LostAfterOneMiss ==
    /\ nguesses = 1
    /\ nguesses_left = 0
    /\ pc = "Lost"
    /\ word_was # Unbound

\* a step of play() that accepts the line read: the letter passes the tests of
\* lines 138 and 142 and is added to guessed_letters
Accepted == pc = "AwaitingGuess" /\ guessed_letters' # guessed_letters

\* C11: an accepted guess does not make the candidate list longer, and makes
\* it shorter when the letter splits the list into more than one group.
C11_SizeNonIncreasing ==
    [][Accepted =>
          /\ Len(words') <= Len(words)
          /\ Cardinality(Patterns(words, ltr'[1])) > 1 => Len(words') < Len(words)]_vars

\* a guessed letter split the list of the last call into three groups and
\* the list kept is shorter
C11_SplitInThree ==
    /\ pc # "Raised"
    /\ Len(words) < Len(legal_words)
    /\ \E g \in guessed_letters : Cardinality(Patterns(legal_words, g)) >= 3

\* C12: an accepted guess of a letter that occurs in no candidate word keeps
\* the candidate list as it is, is a miss, and takes exactly 1 off the counter.
C12_AbsentLetterIsMiss ==
    [][(Accepted /\ \A k \in 1..Len(words) : ltr'[1] \notin set(words[k]))
          => (/\ words' = words
              /\ pc' \in {"AwaitingGuess", "Lost"}
              /\ pattern'[ltr'[1]] = {}
              /\ nguesses_left' = nguesses_left - 1)]_vars

\* the accepted guess of this step is a hit, or a miss, by the occurrence
\* pattern of the family chosen for it
IsHit == ltr'[1] \in DOMAIN pattern' /\ pattern'[ltr'[1]] # {}
IsMiss == ltr'[1] \in DOMAIN pattern' /\ pattern'[ltr'[1]] = {}

\* C13: with a starting count of at least 1 the counter is never negative; it
\* changes only on an accepted guess that is a miss, by exactly -1.
C13_CounterOnlyOnMiss ==
    /\ [](nguesses >= 1 => nguesses_left >= 0)
    /\ [][(nguesses >= 1 /\ nguesses_left' # nguesses_left)
            => (Accepted /\ IsMiss /\ nguesses_left' = nguesses_left - 1)]_vars

\* a game of two guesses had a hit and used both guesses up
C13_HitAndTwoMisses ==
    /\ nguesses = 2
    /\ nguesses_left = 0
    /\ \E g \in DOMAIN pattern : pattern[g] # {}

\* C14: an accepted guess ends in Won exactly when it is a hit after which
\* every letter of words[0] is guessed, in Lost exactly when it is a miss that
\* brings the counter to zero, and otherwise leaves the game awaiting a guess.
C14_OutcomeOfGuess ==
    [][Accepted =>
          /\ pc' = "Won" <=> (IsHit /\ set(words'[1]) \subseteq guessed_letters')
          /\ pc' = "Lost" <=> (IsMiss /\ nguesses_left' = 0)
          /\ pc' \in {"Won", "Lost", "AwaitingGuess"}]_vars

\* C15: the hit or miss play() decides on words[0] (a hit leaves the counter,
\* a miss takes 1 off) agrees with the occurrence pattern of the family chosen
\* (non-empty = hit, empty = miss) and is the same for every member of the
\* new candidate list.
C15_DecisionAgreesWithPattern ==
    [][(Accepted /\ pc' # "Raised") =>
          /\ nguesses_left' = nguesses_left <=> IsHit
          /\ nguesses_left' = nguesses_left - 1 <=> IsMiss
          /\ \A k \in 1..Len(words') : ltr'[1] \in set(words'[k]) <=> IsHit]_vars

\* only hits so far, and different candidates are left
C15_HitKeepsSeveral ==
    /\ guessed_letters # {}
    /\ DOMAIN pattern = guessed_letters
    /\ \A g \in guessed_letters : pattern[g] # {}
    /\ \E i, j \in 1..Len(words) : words[i] # words[j]

\* C16: in a Won state every word of the candidate list equals words[0].
C16_WonLeavesOneWord ==
    pc = "Won" => \A k \in 1..Len(words) : words[k] = word /\ words[k] = words[1]

\* a game was won with the same word several times in the candidate list
C16_WonWithDuplicates ==
    /\ pc = "Won"
    /\ Len(words) >= 2

\* C17: while the game awaits a guess, and when it is Lost, words[0] has a
\* letter that is not guessed.
C17_LetterMissingUnlessWon ==
    (pc \in {"AwaitingGuess", "Lost"} /\ words # <<>>)
        => set(words[1]) \ guessed_letters # {}

\* a game was lost after a hit: some letters of the word are guessed, not all
C17_LostAfterHit ==
    /\ pc = "Lost"
    /\ set(word) \cap guessed_letters # {}
    /\ set(word) \ guessed_letters # {}

\* C18: the starting count minus the counter is the number of guessed letters
\* that do not occur in words[0].
C18_MissesCounted ==
    words # <<>> =>
        nguesses - nguesses_left =
            Cardinality({g \in guessed_letters : g \notin set(words[1])})

\* one miss among at least two accepted guesses
C18_OneMissOneHit ==
    /\ words # <<>>
    /\ nguesses - nguesses_left = 1
    /\ Cardinality(guessed_letters) >= 2

====
